---- MODULE Spec2Model ----
(***************************************************************************)
(* Model of patches/apply_patch.py: the LiteLLM Snowflake compatibility    *)
(* patch script (apply / --check / --undo against one target file and its  *)
(* ".backup" sibling).                                                     *)
(*                                                                         *)
(* File contents are sequences of tokens.  A token is a piece of text that *)
(* the script's two searches treat as a unit:                              *)
(*   "NL"     the line feed character                                      *)
(*   "CR"     the carriage return character                                *)
(*   "ANCHOR" sixteen spaces followed by                                   *)
(*            headers, response = await self.make_openai_chat_completion_request( *)
(*   "MARK"   the text of PATCH_MARKER                                     *)
(*   "X"      any other text (no newline, no marker, no anchor text)       *)
(*   "HEAD" "TAIL" "IF" "POP" "DASH"  the remaining pieces of PATCH_CODE   *)
(* The platform modelled is POSIX (os.linesep is "\n").                    *)
(***************************************************************************)
EXTENDS Integers, Sequences, FiniteSets, TLC

VARIABLES
    target,      \* bytes of the target file (it always exists)
    backup,      \* the backup file: NoFile or File(bytes)
    initTarget,  \* bytes of the target file before the first run
    initBackup,  \* the backup file before the first run
    last,        \* the most recent run of the script
    prev,        \* the run before it
    pc,          \* concurrent applies: position of each instance
    content,     \* concurrent applies: local variable `content`
    ret,         \* concurrent applies: return value of each instance
    copied,      \* concurrent applies: instances that ran shutil.copy2
    overlapped   \* concurrent applies: the two instances overlapped in time

vars == <<target, backup, initTarget, initBackup, last, prev,
          pc, content, ret, copied, overlapped>>

raceVars == <<pc, content, ret, copied, overlapped>>

----------------------------------------------------------------------------
(* Bounds *)

MaxLen       == 4   \* longest initial target content, in tokens
MaxBackupLen == 1   \* longest pre-existing backup content, in tokens

----------------------------------------------------------------------------
(* Text *)

(* A file that does not exist, and a file holding the given bytes.          *)
NoFile == [exists |-> FALSE, bytes |-> <<>>]

File(bytes) == [exists |-> TRUE, bytes |-> bytes]

(* os.path.exists(path) *)
exists(f) == f.exists

FileTokens == {"NL", "CR", "ANCHOR", "MARK", "X"}

SeqsUpTo(S, n) == UNION {[1..k -> S] : k \in 0..n}

Contents == SeqsUpTo(FileTokens, MaxLen)

Backups == {NoFile} \cup {File(c) : c \in SeqsUpTo(FileTokens, MaxBackupLen)}

PATCH_MARKER == "MARK"

(* Variant: the replacement text without the marker.                       *)
PATCH_CODE_no_marker ==
    <<"NL", "HEAD", "TAIL",
      "NL", "IF",
      "NL", "POP",
      "NL", "DASH",
      "NL",
      "NL", "ANCHOR">>

PATCH_CODE ==
    <<"NL", "HEAD", PATCH_MARKER, "TAIL",
      "NL", "IF",
      "NL", "POP",
      "NL", "DASH",
      "NL",
      "NL", "ANCHOR">>

ORIGINAL_CODE == <<"NL", "ANCHOR">>

pattern == <<"NL", "ANCHOR">>

(* open(filepath, "r").read(): text mode with universal newlines, so       *)
(* "\r\n" and a lone "\r" both arrive as "\n".                             *)
RECURSIVE ReadText(_)
ReadText(bytes) ==
    IF bytes = <<>> THEN <<>>
    ELSE IF bytes[1] = "CR"
         THEN IF Len(bytes) >= 2 /\ bytes[2] = "NL"
              THEN <<"NL">> \o ReadText(SubSeq(bytes, 3, Len(bytes)))
              ELSE <<"NL">> \o ReadText(Tail(bytes))
         ELSE <<bytes[1]>> \o ReadText(Tail(bytes))

(* open(filepath, "w").write(text): text mode, "\n" is written as          *)
(* os.linesep, which is "\n" on the platform modelled.                     *)
linesep == <<"NL">>

RECURSIVE WriteText(_)
WriteText(text) ==
    IF text = <<>> THEN <<>>
    ELSE (IF text[1] = "NL" THEN linesep ELSE <<text[1]>>)
         \o WriteText(Tail(text))

(* PATCH_MARKER in text *)
Contains(text, tok) == \E i \in 1..Len(text) : text[i] = tok

MatchAt(text, i) ==
    /\ i + Len(pattern) - 1 <= Len(text)
    /\ SubSeq(text, i, i + Len(pattern) - 1) = pattern

(* len(re.findall(pattern, content)): non-overlapping matches, left to     *)
(* right.                                                                  *)
RECURSIVE re_findall(_)
re_findall(text) ==
    IF text = <<>> THEN 0
    ELSE IF MatchAt(text, 1)
         THEN 1 + re_findall(SubSeq(text, Len(pattern) + 1, Len(text)))
         ELSE re_findall(Tail(text))

(* re.sub with count=1: only the first match replaced.                     *)
re_sub_first(text) ==
    IF \E i \in 1..Len(text) : MatchAt(text, i)
    THEN LET i == CHOOSE k \in 1..Len(text) :
                      /\ MatchAt(text, k)
                      /\ \A j \in 1..(k - 1) : ~MatchAt(text, j)
         IN  SubSeq(text, 1, i - 1) \o PATCH_CODE
             \o SubSeq(text, i + Len(pattern), Len(text))
    ELSE text

(* re.sub(pattern, PATCH_CODE, content): every match replaced, the rest    *)
(* copied.  PATCH_CODE holds no backslash, so it is inserted literally.    *)
RECURSIVE re_sub(_)
re_sub(text) ==
    IF text = <<>> THEN <<>>
    ELSE IF MatchAt(text, 1)
         THEN PATCH_CODE \o re_sub(SubSeq(text, Len(pattern) + 1, Len(text)))
         ELSE <<text[1]>> \o re_sub(Tail(text))

(* Variant: the marker is never found.                                     *)
is_patched_never(bytes) == FALSE

is_patched(bytes) == Contains(ReadText(bytes), PATCH_MARKER)

----------------------------------------------------------------------------
(* The operations, each on the pair (target bytes, backup file) *)

Outcome(t, b, r) == [target |-> t, backup |-> b, ret |-> r]

(* shutil.copy2(src, dst): dst exists and holds the bytes of src           *)
(* afterwards.                                                             *)
copy2(src) == src

(* Variant: the backup is copied without the existence test.               *)
create_backup_always(t, b) == File(copy2(t))

(* apply_patch, "Create backup": copied only when no backup file exists.   *)
create_backup(t, b) == IF ~exists(b) THEN File(copy2(t)) ELSE b

(* Variant: no "if not matches" return.                                    *)
apply_patch_no_match_check(t, b) ==
    IF is_patched(t)
    THEN Outcome(t, b, FALSE)
    ELSE Outcome(WriteText(re_sub(ReadText(t))), create_backup(t, b), TRUE)

apply_patch(t, b) ==
    IF is_patched(t)
    THEN Outcome(t, b, FALSE)
    ELSE LET b2      == create_backup(t, b)
             text    == ReadText(t)
             matches == re_findall(text)
         IN  IF matches = 0
             THEN Outcome(t, b2, FALSE)
             ELSE Outcome(WriteText(re_sub(text)), b2, TRUE)

(* Variant: copy2 with its arguments swapped.                              *)
undo_patch_reversed(t, b) ==
    IF ~exists(b) THEN Outcome(t, b, FALSE) ELSE Outcome(t, File(copy2(t)), TRUE)

(* Variant: the backup is moved, not copied.                               *)
undo_patch_moves(t, b) ==
    IF ~exists(b) THEN Outcome(t, b, FALSE) ELSE Outcome(copy2(b.bytes), NoFile, TRUE)

undo_patch(t, b) ==
    IF ~exists(b) THEN Outcome(t, b, FALSE) ELSE Outcome(copy2(b.bytes), b, TRUE)

(* main: the branch taken for the parsed arguments; --check wins over      *)
(* --undo.                                                                 *)
Args == [check : BOOLEAN, undo : BOOLEAN]

Branch(args) ==
    IF args.check THEN "check" ELSE IF args.undo THEN "undo" ELSE "apply"

(* Variant: every branch exits with the status of its result.              *)
exit_code_from_result(op, r) == IF r THEN 0 ELSE 1

(* main: the status passed to sys.exit in each branch.                     *)
exit_code(op, r) ==
    IF op = "check" THEN (IF r THEN 0 ELSE 1) ELSE 0

----------------------------------------------------------------------------
(* Sequential runs of the script *)

NoRun == [op |-> "none", ret |-> FALSE, exit |-> 0,
          preTarget |-> <<>>, preBackup |-> NoFile]

Run(op, r) == [op |-> op, ret |-> r, exit |-> exit_code(op, r),
               preTarget |-> target, preBackup |-> backup]

RaceIdle ==
    /\ pc = [p \in {1, 2} |-> "idle"]
    /\ content = [p \in {1, 2} |-> <<>>]
    /\ ret = [p \in {1, 2} |-> FALSE]
    /\ copied = {}
    /\ overlapped = FALSE

Init ==
    /\ target \in Contents
    /\ backup \in Backups
    /\ initTarget = target
    /\ initBackup = backup
    /\ last = NoRun
    /\ prev = NoRun
    /\ RaceIdle

(* python apply_patch.py --check *)
RunCheck ==
    \E args \in Args :
        /\ Branch(args) = "check"
        /\ last' = Run("check", is_patched(target))
        /\ prev' = last
        /\ UNCHANGED <<target, backup, initTarget, initBackup>>
        /\ UNCHANGED raceVars

(* python apply_patch.py --undo *)
RunUndo ==
    \E args \in Args :
        /\ Branch(args) = "undo"
        /\ LET o == undo_patch(target, backup)
           IN  /\ target' = o.target
               /\ backup' = o.backup
               /\ last' = Run("undo", o.ret)
        /\ prev' = last
        /\ UNCHANGED <<initTarget, initBackup>>
        /\ UNCHANGED raceVars

(* python apply_patch.py *)
RunApply ==
    \E args \in Args :
        /\ Branch(args) = "apply"
        /\ LET o == apply_patch(target, backup)
           IN  /\ target' = o.target
               /\ backup' = o.backup
               /\ last' = Run("apply", o.ret)
        /\ prev' = last
        /\ UNCHANGED <<initTarget, initBackup>>
        /\ UNCHANGED raceVars

Next == RunCheck \/ RunUndo \/ RunApply

Spec == Init /\ [][Next]_vars

----------------------------------------------------------------------------
(* Two instances of `python apply_patch.py` running at the same time.      *)
(* Each instance walks through apply_patch one file-system call at a time. *)

Procs == {1, 2}

Other(p) == IF p = 1 THEN 2 ELSE 1

(* f.write(data) on a file opened with "w": the bytes go to offset 0 of    *)
(* whatever the file holds at that moment (offsets counted in tokens).     *)
WriteAt0(data, old) ==
    data \o (IF Len(old) > Len(data)
             THEN SubSeq(old, Len(data) + 1, Len(old))
             ELSE <<>>)

(* Content without the marker and with at least one anchor match.          *)
Patchable(c) == ~is_patched(c) /\ re_findall(ReadText(c)) >= 1

RaceInit ==
    /\ target \in {c \in Contents : Patchable(c)}
    /\ backup = NoFile
    /\ initTarget = target
    /\ initBackup = backup
    /\ last = NoRun
    /\ prev = NoRun
    /\ pc = [p \in Procs |-> "is_patched"]
    /\ content = [p \in Procs |-> <<>>]
    /\ ret = [p \in Procs |-> FALSE]
    /\ copied = {}
    /\ overlapped = FALSE

(* Instance p takes a step while the other one is in the middle of its run *)
Step(p) ==
    /\ overlapped' = (overlapped \/ pc[Other(p)] \notin {"is_patched", "done"})
    /\ UNCHANGED <<initTarget, initBackup, last, prev>>

Return(p, r) ==
    /\ pc' = [pc EXCEPT ![p] = "done"]
    /\ ret' = [ret EXCEPT ![p] = r]

(* if is_patched(filepath): return False *)
CheckMarker(p) ==
    /\ pc[p] = "is_patched"
    /\ IF is_patched(target)
       THEN Return(p, FALSE)
       ELSE pc' = [pc EXCEPT ![p] = "exists"] /\ UNCHANGED ret
    /\ UNCHANGED <<target, backup, content, copied>>
    /\ Step(p)

(* if not os.path.exists(backup_path): *)
CheckBackup(p) ==
    /\ pc[p] = "exists"
    /\ pc' = [pc EXCEPT ![p] = IF ~exists(backup) THEN "copy_open" ELSE "read"]
    /\ UNCHANGED <<target, backup, content, ret, copied>>
    /\ Step(p)

(* shutil.copy2, first half: the destination is opened for writing, which  *)
(* creates it or empties it.                                               *)
CopyOpen(p) ==
    /\ pc[p] = "copy_open"
    /\ backup' = File(<<>>)
    /\ pc' = [pc EXCEPT ![p] = "copy_data"]
    /\ UNCHANGED <<target, content, ret, copied>>
    /\ Step(p)

(* shutil.copy2, second half: the bytes of the target go to offset 0 of    *)
(* the destination.                                                        *)
CopyData(p) ==
    /\ pc[p] = "copy_data"
    /\ backup' = File(WriteAt0(copy2(target), backup.bytes))
    /\ copied' = copied \cup {p}
    /\ pc' = [pc EXCEPT ![p] = "read"]
    /\ UNCHANGED <<target, content, ret>>
    /\ Step(p)

(* content = f.read(); matches = re.findall(...); if not matches: return   *)
ReadTarget(p) ==
    /\ pc[p] = "read"
    /\ content' = [content EXCEPT ![p] = ReadText(target)]
    /\ IF re_findall(ReadText(target)) = 0
       THEN Return(p, FALSE)
       ELSE pc' = [pc EXCEPT ![p] = "open_w"] /\ UNCHANGED ret
    /\ UNCHANGED <<target, backup, copied>>
    /\ Step(p)

(* patched_content = re.sub(...); open(filepath, "w") empties the target   *)
OpenWrite(p) ==
    /\ pc[p] = "open_w"
    /\ target' = <<>>
    /\ pc' = [pc EXCEPT ![p] = "write"]
    /\ UNCHANGED <<backup, content, ret, copied>>
    /\ Step(p)

(* f.write(patched_content), the file is closed; return True *)
WriteTarget(p) ==
    /\ pc[p] = "write"
    /\ target' = WriteAt0(WriteText(re_sub(content[p])), target)
    /\ Return(p, TRUE)
    /\ UNCHANGED <<backup, content, copied>>
    /\ Step(p)

RaceNext ==
    \E p \in Procs :
        \/ CheckMarker(p)
        \/ CheckBackup(p)
        \/ CopyOpen(p)
        \/ CopyData(p)
        \/ ReadTarget(p)
        \/ OpenWrite(p)
        \/ WriteTarget(p)

SpecRace == RaceInit /\ [][RaceNext]_vars

----------------------------------------------------------------------------
(* Vocabulary of the properties *)

HasMarker(c) == \E i \in 1..Len(c) : c[i] = "MARK"

MarkerCount(c) == Cardinality({i \in 1..Len(c) : c[i] = "MARK"})

(* The file's text as the script sees it: each line ending is one "\n".    *)
RECURSIVE Lines(_)
Lines(c) ==
    IF c = <<>> THEN <<>>
    ELSE IF Len(c) >= 2 /\ c[1] = "CR" /\ c[2] = "NL"
         THEN <<"NL">> \o Lines(Tail(Tail(c)))
         ELSE <<IF c[1] = "CR" THEN "NL" ELSE c[1]>> \o Lines(Tail(c))

(* Number of anchor lines: a line ending followed by the anchor text.      *)
AnchorMatches(c) ==
    Cardinality({i \in 1..(Len(Lines(c)) - 1) :
                    Lines(c)[i] = "NL" /\ Lines(c)[i + 1] = "ANCHOR"})

(* The lines the patch puts in front of an anchor line.                    *)
Fragment ==
    <<"NL", "HEAD", "MARK", "TAIL", "NL", "IF", "NL", "POP", "NL", "DASH", "NL">>

StartsWith(c, pre) ==
    Len(c) >= Len(pre) /\ SubSeq(c, 1, Len(pre)) = pre

(* c with every fragment that stands directly before an anchor line taken  *)
(* out again.                                                              *)
RECURSIVE RemoveFragments(_)
RemoveFragments(c) ==
    IF c = <<>> THEN <<>>
    ELSE IF StartsWith(c, Fragment \o <<"NL", "ANCHOR">>)
         THEN <<"NL", "ANCHOR">>
              \o RemoveFragments(SubSeq(c, Len(Fragment) + 3, Len(c)))
         ELSE <<c[1]>> \o RemoveFragments(Tail(c))

Applied == last.op = "apply"

Undone == last.op = "undo"

Checked == last.op = "check"

----------------------------------------------------------------------------
(* C1.  For every target content C without the marker and with n >= 1      *)
(* anchor matches, and no backup file beforehand, apply returns true and    *)
(* leaves (a) a target that holds the marker exactly n times, each          *)
(* occurrence inserted directly before one original anchor line with all    *)
(* other text unchanged, and (b) a backup whose content equals C.           *)
C1_Case ==
    /\ Applied
    /\ ~HasMarker(last.preTarget)
    /\ AnchorMatches(last.preTarget) >= 1
    /\ ~exists(last.preBackup)

C1_ApplyInsertsOnly ==
    C1_Case =>
        /\ last.ret = TRUE
        /\ MarkerCount(target) = AnchorMatches(last.preTarget)
        /\ RemoveFragments(target) = last.preTarget
        /\ backup = File(last.preTarget)

(* What does hold of C1's case: the text is unchanged up to line endings,   *)
(* which are all written back as "\n".                                      *)
C1_UpToLineEndings ==
    C1_Case =>
        /\ last.ret = TRUE
        /\ MarkerCount(target) = AnchorMatches(last.preTarget)
        /\ RemoveFragments(target) = Lines(last.preTarget)
        /\ backup = File(last.preTarget)

C1_Reached == C1_Case /\ AnchorMatches(last.preTarget) = 2

(* C2.  For every target content C that holds the marker, apply is a no-op: *)
(* it returns false, the target afterwards equals C, an existing backup is  *)
(* unchanged and no backup is created if none existed.                      *)
C2_MarkedIsNoOp ==
    (Applied /\ HasMarker(last.preTarget)) =>
        /\ last.ret = FALSE
        /\ target = last.preTarget
        /\ backup = last.preBackup

C2_Reached ==
    /\ Applied
    /\ HasMarker(last.preTarget)
    /\ AnchorMatches(last.preTarget) >= 1
    /\ ~exists(last.preBackup)
    /\ ~exists(backup)

(* C3.  Round trip: if no backup file exists before an apply, then apply    *)
(* followed by undo leaves the target content as it was before the apply,   *)
(* whether apply patched the file, found no anchor, or found the marker.    *)
C3_RoundTrip ==
    (Undone /\ prev.op = "apply" /\ ~exists(prev.preBackup)) =>
        target = prev.preTarget

C3_Reached ==
    /\ Undone
    /\ prev.op = "apply"
    /\ ~exists(prev.preBackup)
    /\ prev.ret = TRUE
    /\ last.ret = TRUE
    /\ last.preTarget # prev.preTarget
    /\ target = prev.preTarget

(* C4.  Backup non-clobbering: whenever a backup file exists with content   *)
(* B, any apply (on any target content, also when it differs from B, also   *)
(* on a repeated attempt) leaves the backup content equal to B; apply      *)
(* writes the backup only when it did not exist.                            *)
C4_BackupNotClobbered ==
    Applied =>
        /\ exists(last.preBackup) => backup = last.preBackup
        /\ backup # last.preBackup => ~exists(last.preBackup)

C4_Reached ==
    /\ Applied
    /\ exists(last.preBackup)
    /\ last.preBackup.bytes # last.preTarget
    /\ last.ret = TRUE
    /\ backup = last.preBackup

C6_Undo ==
    Undone =>
        IF ~exists(last.preBackup)
        THEN /\ last.ret = FALSE
             /\ target = last.preTarget
             /\ ~exists(backup)
        ELSE /\ last.ret = TRUE
             /\ target = last.preBackup.bytes
             /\ backup = last.preBackup

C6_Reached ==
    /\ Undone
    /\ exists(last.preBackup)
    /\ last.preBackup.bytes # last.preTarget
    /\ target = backup.bytes

(* C7.  Exit codes of one run: --check exits 0 exactly when the target      *)
(* holds the marker and 1 otherwise, and changes neither file; apply and    *)
(* --undo exit 0 whatever they report.                                      *)
C7_ExitCodes ==
    /\ Checked =>
        /\ last.exit = (IF HasMarker(last.preTarget) THEN 0 ELSE 1)
        /\ target = last.preTarget
        /\ backup = last.preBackup
    /\ (Applied \/ Undone) => last.exit = 0

C7_Reached ==
    /\ Applied
    /\ last.ret = FALSE
    /\ ~HasMarker(last.preTarget)
    /\ last.exit = 0
    /\ prev.op = "check"
    /\ prev.exit = 1

(* C8.  Idempotence of apply: after two consecutive applies the target and  *)
(* the backup are what they were after the first, and the second apply of   *)
(* a file the first one patched returns false.                              *)
C8_ApplyIdempotent ==
    (Applied /\ prev.op = "apply") =>
        /\ target = last.preTarget
        /\ backup = last.preBackup
        /\ prev.ret = TRUE => last.ret = FALSE

C8_Reached ==
    /\ Applied
    /\ prev.op = "apply"
    /\ prev.ret = TRUE
    /\ last.ret = FALSE
    /\ target # prev.preTarget

(* C9.  Lifecycle: starting from a marker-free target C and no backup,      *)
(* after any sequence of apply, undo and check runs the backup is absent    *)
(* or holds exactly C (and never the marker), the target is C or the        *)
(* once-patched form of C (C with one fragment inserted before each anchor  *)
(* line and nothing else changed), and every undo that returns true leaves  *)
(* the target without the marker.                                           *)
ExactlyPatched(t, c) ==
    /\ MarkerCount(t) = AnchorMatches(c)
    /\ MarkerCount(t) >= 1
    /\ RemoveFragments(t) = c

C9_Lifecycle ==
    (~HasMarker(initTarget) /\ ~exists(initBackup)) =>
        /\ backup \in {NoFile, File(initTarget)}
        /\ exists(backup) => ~HasMarker(backup.bytes)
        /\ target = initTarget \/ ExactlyPatched(target, initTarget)
        /\ (Undone /\ last.ret = TRUE) => ~HasMarker(target)

(* What does hold of the lifecycle: the same, with the once-patched form    *)
(* taken up to line endings (the text of C as the script reads it, with     *)
(* one fragment before each anchor line).                                   *)
OncePatched(t, c) ==
    /\ MarkerCount(t) = AnchorMatches(c)
    /\ MarkerCount(t) >= 1
    /\ RemoveFragments(t) = Lines(c)

C9_UpToLineEndings ==
    (~HasMarker(initTarget) /\ ~exists(initBackup)) =>
        /\ backup \in {NoFile, File(initTarget)}
        /\ exists(backup) => ~HasMarker(backup.bytes)
        /\ target = initTarget \/ OncePatched(target, initTarget)
        /\ (Undone /\ last.ret = TRUE) => ~HasMarker(target)

C9_Reached ==
    /\ ~HasMarker(initTarget)
    /\ ~exists(initBackup)
    /\ Undone
    /\ last.ret = TRUE
    /\ HasMarker(last.preTarget)
    /\ target = initTarget
    /\ prev.op = "apply"
    /\ prev.ret = FALSE

(* C10.  Two applies running at once on a patchable target C with no        *)
(* backup race: run one after the other they end with the backup equal to   *)
(* C and one fragment per anchor line (up to line endings); interleaved,    *)
(* both can find no backup and both copy, and the run can end with a        *)
(* backup that is not C or with more than one fragment per anchor line.     *)
RaceDone == \A p \in Procs : pc[p] = "done"

C10_OneAfterTheOther ==
    (RaceDone /\ ~overlapped) =>
        /\ backup = File(initTarget)
        /\ OncePatched(target, initTarget)
        /\ Cardinality(copied) = 1
        /\ \E p \in Procs : ret[p] = TRUE /\ ret[Other(p)] = FALSE

C10_RaceReached ==
    /\ RaceDone
    /\ overlapped
    /\ copied = Procs
    /\ backup # File(initTarget)
    /\ HasMarker(backup.bytes)
    /\ MarkerCount(target) > AnchorMatches(initTarget)

====
